---- MODULE Spec2Model ----
(***************************************************************************)
(* Model of the gRPC-web framing codec (pkg/flightradar/grpcweb.go) and of *)
(* the follow-flight streaming reader (pkg/flightradar/grpc.go,            *)
(* GrpcFollowFlightStream) of igolaizola/fr24.                             *)
(*                                                                         *)
(* Bytes are integers 0..255, byte slices are sequences of bytes.          *)
(***************************************************************************)
EXTENDS Integers, Sequences, FiniteSets, TLC

VARIABLES
    \* ---- streaming reader (grpc.go:249-277) ----
    wire,        \* every byte the remote side sends on the response body
    remoteEOF,   \* the remote side has finished sending and closed its side
    buffered,    \* number of wire bytes pulled into br (bufio.Reader) so far
    rdpos,       \* number of wire bytes io.ReadFull has copied out of br
    pc,          \* position of the read-loop goroutine
    header,      \* header bytes read so far (grpc.go:258)
    payload,     \* payload bytes read so far (grpc.go:263)
    need,        \* n, the declared payload length (grpc.go:262)
    ch,          \* contents of the buffered channel ch (grpc.go:249)
    chClosed,    \* close(ch) has run (grpc.go:252)
    doneClosed,  \* close(done) has run (grpc.go:276)
    bodyClosed,  \* resp.Body.Close() has run (grpc.go:253, 276)
    ctxExpired,  \* the context passed to hc.Do has expired (grpc.go:245)
    cancels,     \* number of calls of the returned cancel function
    panicked,    \* a goroutine has panicked: the process is gone
    consumer,    \* the caller's receive loop: "receiving", "ended", "stopped"
    received,    \* frames the consumer has taken off ch, in order
    \* ---- codec calls (grpcweb.go) ----
    mode,        \* "stream", "codec", "rpc" or "build": which part of the program runs
    input,       \* the byte slice handed to parseData
    sent,        \* the message handed to encodeMessage, or NoMsg
    output,      \* the outcome of the last parseData call, or NoCall
    \* ---- request/response calls (client.go, grpc.go, service.go) ----
    httpTimeout, \* c.http.Timeout of the shared client, in seconds
    call,        \* the last request/response call: its response and result
    streams,     \* the streams opened so far: the Timeout each was issued with
    request      \* the last request built by constructGRPCRequest

streamVars == <<wire, remoteEOF, buffered, rdpos, pc, header, payload, need, ch,
                chClosed, doneClosed, bodyClosed, ctxExpired, cancels, panicked,
                consumer, received>>
rpcVars == <<httpTimeout, call, streams, request>>
codecVars == <<input, sent, output, rpcVars>>
vars == <<streamVars, codecVars, mode>>

-----------------------------------------------------------------------------
(* Bounds of the model *)

\* longest raw byte string enumerated as parseData input
MaxLen == 5
\* largest value of a message field
MaxField == 2
\* most frames on an enumerated wire
MaxFrames == 2
\* most bytes one read of the response body returns
MaxChunk == 2
\* most calls of the cancel function
MaxCancels == 2
\* longest message payload enumerated behind a data-frame header
MaxPayload == 3
\* most bytes of spare capacity behind the length of a byte slice
MaxSpare == 2
\* most lines of an enumerated trailer payload
MaxLines == 2

\* capacity of the delivery channel: make(chan []byte, 8)
ChanCap == 8

-----------------------------------------------------------------------------
(* Byte-slice helpers *)

Min(a, b) == IF a < b THEN a ELSE b

\* s[from:to] of Go, 0-based, for 0 <= from <= to <= len(s)
Slice(s, from, to) == SubSeq(s, from + 1, to)

\* binary.BigEndian.Uint32 and the shift/or expression of the read loop
BigEndianUint32(b) == ((b[1] * 256 + b[2]) * 256 + b[3]) * 256 + b[4]

\* binary.BigEndian.PutUint32(len4[:], uint32(n)): the four low-order bytes
\* of n, most significant first (the % 256 of the top byte is the uint32
\* conversion)
PutUint32(n) ==
    << (n \div 16777216) % 256, (n \div 65536) % 256, (n \div 256) % 256, n % 256 >>

\* bytes.HasPrefix
HasPrefix(s, p) == Len(s) >= Len(p) /\ SubSeq(s, 1, Len(p)) = p

\* the ASCII white space bytes.TrimSpace strips: \t \n \v \f \r and space
IsSpace(b) == b \in {9, 10, 11, 12, 13, 32}

RECURSIVE TrimLeft(_)
TrimLeft(s) ==
    IF s # << >> /\ IsSpace(Head(s)) THEN TrimLeft(Tail(s)) ELSE s

RECURSIVE TrimRight(_)
TrimRight(s) ==
    IF s # << >> /\ IsSpace(s[Len(s)]) THEN TrimRight(SubSeq(s, 1, Len(s) - 1)) ELSE s

\* bytes.TrimSpace
TrimSpace(s) == TrimRight(TrimLeft(s))

\* bytes.Split(s, []byte{'\n'}): the pieces between the newlines
RECURSIVE SplitLines(_, _)
SplitLines(s, cur) ==
    IF s = << >> THEN << cur >>
    ELSE IF Head(s) = 10 THEN << cur >> \o SplitLines(Tail(s), << >>)
    ELSE SplitLines(Tail(s), Append(cur, Head(s)))

Split(s) == SplitLines(s, << >>)

-----------------------------------------------------------------------------
(* Messages and their protobuf wire encoding.  A message has two scalar    *)
(* fields, numbers 1 and 2, of wire type varint, like FollowFlightRequest  *)
(* {FlightId, RestrictionMode}; values stay below 128 (one-byte varints).  *)

ZeroMsg == [f1 |-> 0, f2 |-> 0]
Msgs == [f1 : 0..MaxField, f2 : 0..MaxField]
NoMsg == [f1 |-> -1, f2 |-> -1]

\* proto.Marshal: a field holding its zero value is not put on the wire
Marshal(m) ==
    (IF m.f1 # 0 THEN << 8, m.f1 >> ELSE << >>) \o
    (IF m.f2 # 0 THEN << 16, m.f2 >> ELSE << >>)

\* proto.Unmarshal into a reset message: tag byte 8 is field 1, tag byte 16
\* is field 2; a tag with field number 0 (a byte below 8) and a tag whose
\* value is missing are errors; what was decoded before the error stays.
RECURSIVE UnmarshalFrom(_, _)
UnmarshalFrom(b, m) ==
    IF b = << >> THEN [ok |-> TRUE, msg |-> m]
    ELSE IF Head(b) \notin {8, 16} \/ Len(b) < 2 \/ b[2] >= 128
         THEN [ok |-> FALSE, msg |-> m]
    ELSE UnmarshalFrom(SubSeq(b, 3, Len(b)),
                       IF Head(b) = 8 THEN [m EXCEPT !.f1 = b[2]]
                                      ELSE [m EXCEPT !.f2 = b[2]])

Unmarshal(b) == UnmarshalFrom(b, ZeroMsg)

-----------------------------------------------------------------------------
(* Frame codec (grpcweb.go) *)

\* Reverse of a byte slice
Reverse(s) == [i \in 1..Len(s) |-> s[Len(s) + 1 - i]]

\* encodeMessage writing the length least significant byte first
encodeMessage_LittleEndian(m) ==
    LET body == Marshal(m)
    IN  << 0 >> \o Reverse(PutUint32(Len(body))) \o body

\* encodeMessage setting the compressed flag
encodeMessage_FlagOne(m) ==
    LET body == Marshal(m)
    IN  << 1 >> \o PutUint32(Len(body)) \o body

\* encodeMessage: flag 0, 4-byte big-endian length, body
encodeMessage(m) ==
    LET body == Marshal(m)
    IN  << 0 >> \o PutUint32(Len(body)) \o body

\* Outcome of a parseData call.  kind is "ok" (nil), "GrpcError",
\* "ProtoParseError", or "panic" (a run-time fault: slice bounds out of
\* range).  msg is the byte range handed to proto.Unmarshal, into is the
\* target message after the call.
Outcome(kind, message, raw, st, stmsg, det, msg, into) ==
    [kind |-> kind, Message |-> message, Raw |-> raw, Status |-> st,
     StatusMessage |-> stmsg, StatusDetails |-> det, msg |-> msg, into |-> into]

\* no parseData call has been made yet
NoCall == Outcome("none", "", << >>, << >>, << >>, << >>, << >>, ZeroMsg)

GrpcErr(message, raw, into) ==
    Outcome("GrpcError", message, raw, << >>, << >>, << >>, << >>, into)

Panic(raw, into) == Outcome("panic", "", raw, << >>, << >>, << >>, << >>, into)

\* "grpc-status:", "grpc-message:", "grpc-status-details-bin:" in ASCII
GrpcStatusKey == << 103, 114, 112, 99, 45, 115, 116, 97, 116, 117, 115, 58 >>
GrpcMessageKey == << 103, 114, 112, 99, 45, 109, 101, 115, 115, 97, 103, 101, 58 >>
GrpcDetailsKey == << 103, 114, 112, 99, 45, 115, 116, 97, 116, 117, 115, 45, 100,
                     101, 116, 97, 105, 108, 115, 45, 98, 105, 110, 58 >>

\* the for loop of parseTrailers over lines[i..], ge being updated in place
RECURSIVE TrailerLines(_, _)
TrailerLines(lines, ge) ==
    IF lines = << >> THEN ge
    ELSE LET ln == Head(lines)
             ge2 == IF HasPrefix(ln, GrpcStatusKey)
                       THEN [ge EXCEPT !.Status =
                                TrimSpace(SubSeq(ln, Len(GrpcStatusKey) + 1, Len(ln)))]
                    ELSE IF HasPrefix(ln, GrpcMessageKey)
                       THEN [ge EXCEPT !.StatusMessage =
                                TrimSpace(SubSeq(ln, Len(GrpcMessageKey) + 1, Len(ln)))]
                    ELSE IF HasPrefix(ln, GrpcDetailsKey)
                       THEN [ge EXCEPT !.StatusDetails =
                                SubSeq(ln, Len(GrpcDetailsKey) + 1, Len(ln))]
                    ELSE ge
         IN  TrailerLines(Tail(lines), ge2)

\* parseTrailers reading the trailer lines from data[0:], header included
parseTrailers_NoHeaderSkip(data, into) ==
    TrailerLines(Split(TrimSpace(data)), GrpcErr("gRPC errored", data, into))

\* parseTrailers: data[5:] faults when data has fewer than 5 bytes
parseTrailers(data, into) ==
    IF Len(data) < 5 THEN Panic(data, into)
    ELSE LET trailers == Slice(data, 5, Len(data))
             lines == Split(TrimSpace(trailers))
         IN  TrailerLines(lines, GrpcErr("gRPC errored", data, into))

\* parseData lines 47-55 taking everything behind the header as payload
decodeMessage_ToEnd(data, into) ==
    LET n == BigEndianUint32(Slice(data, 1, 5))
    IN  IF n = 0 THEN GrpcErr("empty message payload", data, into)
        ELSE IF 5 + n > Len(data) THEN Panic(data, into)
        ELSE LET msg == Slice(data, 5, Len(data))
                 u == Unmarshal(msg)
             IN  IF ~u.ok
                    THEN Outcome("ProtoParseError", "failed to parse message",
                                 data, << >>, << >>, << >>, msg, u.msg)
                 ELSE Outcome("ok", "", << >>, << >>, << >>, << >>, msg, u.msg)

\* parseData lines 47-55: the declared length and the message behind it;
\* data[5 : 5+n] faults when fewer than 5+n bytes are present
decodeMessage(data, into) ==
    LET n == BigEndianUint32(Slice(data, 1, 5))
    IN  IF n = 0 THEN GrpcErr("empty message payload", data, into)
        ELSE IF 5 + n > Len(data) THEN Panic(data, into)
        ELSE LET msg == Slice(data, 5, 5 + n)
                 u == Unmarshal(msg)
             IN  IF ~u.ok
                    THEN Outcome("ProtoParseError", "failed to parse message",
                                 data, << >>, << >>, << >>, msg, u.msg)
                 ELSE Outcome("ok", "", << >>, << >>, << >>, << >>, msg, u.msg)

\* parseData without its len(data) == 0 test: data[0] faults on no bytes
parseData_NoEmptyTest(data, into) ==
    IF Len(data) = 0 THEN Panic(data, into)
    ELSE IF data[1] = 1
         THEN GrpcErr("message is compressed, not implemented", data, into)
    ELSE IF data[1] # 0 THEN parseTrailers(data, into)
    ELSE IF Len(data) < 5 THEN GrpcErr("short frame", data, into)
    ELSE decodeMessage(data, into)

\* parseData testing the length before the flag
parseData_LengthFirst(data, into) ==
    IF Len(data) = 0 THEN GrpcErr("empty DATA frame", data, into)
    ELSE IF Len(data) < 5 THEN GrpcErr("short frame", data, into)
    ELSE IF data[1] = 1
         THEN GrpcErr("message is compressed, not implemented", data, into)
    ELSE IF data[1] # 0 THEN parseTrailers(data, into)
    ELSE decodeMessage(data, into)

\* parseData without its len(data) < 5 test: data[1:5] faults
parseData_NoShortTest(data, into) ==
    IF Len(data) = 0 THEN GrpcErr("empty DATA frame", data, into)
    ELSE IF data[1] = 1
         THEN GrpcErr("message is compressed, not implemented", data, into)
    ELSE IF data[1] # 0 THEN parseTrailers(data, into)
    ELSE IF Len(data) < 5 THEN Panic(data, into)
    ELSE decodeMessage(data, into)

\* parseData(data, into)
parseData(data, into) ==
    IF Len(data) = 0 THEN GrpcErr("empty DATA frame", data, into)
    ELSE IF data[1] = 1
         THEN GrpcErr("message is compressed, not implemented", data, into)
    ELSE IF data[1] # 0 THEN parseTrailers(data, into)
    ELSE IF Len(data) < 5 THEN GrpcErr("short frame", data, into)
    ELSE decodeMessage(data, into)

\* parseData on a slice with spare capacity: data[5 : 5+n] is in range up
\* to cap(data), so a declared length that runs past len(data) takes the
\* bytes of the backing array behind the slice as payload, and faults only
\* when it runs past the capacity.  spare: the bytes between len and cap.
parseDataCap(data, spare, into) ==
    LET r == parseData(data, into)
    IN  IF r.kind # "panic" \/ Len(data) < 5 \/ data[1] # 0 THEN r
        ELSE IF 5 + BigEndianUint32(Slice(data, 1, 5)) > Len(data) + Len(spare) THEN r
        ELSE LET d == decodeMessage(data \o spare, into)
             IN  [d EXCEPT !.Raw = IF d.kind = "ok" THEN << >> ELSE data]

-----------------------------------------------------------------------------
(* Codec calls: a caller encodes a message or decodes a byte slice.        *)

\* the byte values raw inputs are built from: the three flag classes
\* (0 data, 1 compressed, 2 trailer) and the two field tags (8, 16)
ByteVals == {0, 1, 2, 8, 16}

RECURSIVE BytesUpTo(_)
BytesUpTo(k) ==
    IF k = 0 THEN {<< >>}
    ELSE LET r == BytesUpTo(k - 1)
         IN  r \cup {Append(s, b) : s \in {t \in r : Len(t) = k - 1}, b \in ByteVals}

\* "grpc-status: 5\ngrpc-message: not found\n"
NotFoundTrailer ==
    << 103, 114, 112, 99, 45, 115, 116, 97, 116, 117, 115, 58, 32, 53, 10,
       103, 114, 112, 99, 45, 109, 101, 115, 115, 97, 103, 101, 58, 32,
       110, 111, 116, 32, 102, 111, 117, 110, 100, 10 >>

\* flag bytes other than 0 and 1, and bytes for the four length positions
\* of a trailer frame (39 is the length of NotFoundTrailer)
TrailerFlags == {2, 128, 255}
LengthBytes == {0, 39, 255}

TrailerInputs ==
    {<< flag, l1, l2, l3, l4 >> \o NotFoundTrailer :
        flag \in TrailerFlags, l1 \in LengthBytes, l2 \in LengthBytes,
        l3 \in LengthBytes, l4 \in LengthBytes}

\* data frames carrying every payload of 1..MaxPayload bytes, whether it
\* deserializes or not
DataFrames ==
    {<< 0 >> \o PutUint32(Len(p)) \o p : p \in BytesUpTo(MaxPayload) \ {<< >>}}

\* what may follow a frame in the same byte slice: a stray byte, another
\* data frame, a trailers frame carrying a failure status
FrameTails ==
    {<< b >> : b \in ByteVals} \cup
    { << 0, 0, 0, 0, 1, 16 >>, << 128, 0, 0, 0, 39 >> \o NotFoundTrailer }

TailedFrames == {f \o t : f \in DataFrames, t \in FrameTails}

\* "grpc-status: 5", "grpc-message: x", "grpc-status-details-bin:A"
StatusLine == GrpcStatusKey \o << 32, 53 >>
MessageLine == GrpcMessageKey \o << 32, 120 >>
DetailsLine == GrpcDetailsKey \o << 65 >>

\* the lines of the enumerated trailer payloads: the three recognized
\* lines, bare, behind a space and before a carriage return; "x"; and the
\* empty line
LinePool ==
    {pre \o ln \o post : pre \in {<< >>, << 32 >>},
                         ln \in {StatusLine, MessageLine, DetailsLine},
                         post \in {<< >>, << 13 >>}}
    \cup { << 120 >>, << >> }

\* the payloads of at most k lines, each line ended by a newline
RECURSIVE TrailerTexts(_)
TrailerTexts(k) ==
    IF k = 0 THEN {<< >>}
    ELSE LET r == TrailerTexts(k - 1)
         IN  r \cup {ln \o << 10 >> \o t : ln \in LinePool, t \in r}

\* "grpc-status: 0\ngrpc-message: OK\n": the trailers of a call that succeeded
OkTrailer == GrpcStatusKey \o << 32, 48, 10 >> \o GrpcMessageKey \o << 32, 79, 75, 10 >>

TextTrailerInputs ==
    {<< 128, 0, 0, 0, Len(t) >> \o t : t \in TrailerTexts(MaxLines) \cup {OkTrailer}}

Inputs ==
    BytesUpTo(MaxLen) \cup TrailerInputs \cup DataFrames \cup TailedFrames
        \cup TextTrailerInputs

\* what the backing array may hold behind the slice: nothing (cap = len),
\* zero bytes of a fresh buffer, or bytes left from an earlier use
RECURSIVE SparesUpTo(_)
SparesUpTo(k) ==
    IF k = 0 THEN {<< >>}
    ELSE LET r == SparesUpTo(k - 1)
         IN  r \cup {<< b >> \o t : b \in {0, 8}, t \in r}

Spares == SparesUpTo(MaxSpare)

\* the spare capacity of the slice io.ReadAll returns: zero bytes
RECURSIVE Zeros(_)
Zeros(k) == IF k = 0 THEN << >> ELSE << 0 >> \o Zeros(k - 1)

ReadAllSpare == Zeros(MaxSpare)

\* the state of the stream part while only codec calls are made
\* http.Client{Timeout: 20 * time.Second}
DefaultTimeout == 20

\* no request/response call has been made yet
NoRpc ==
    [kind |-> "none", pc |-> "idle", body |-> << >>, read |-> << >>,
     failed |-> "none", timeout |-> 0, during |-> 0,
     err |-> "nil", Message |-> "", records |-> NoMsg]

\* no request has been built yet
NoRequest == [built |-> FALSE]

\* the client as New() returns it, no call made
RpcIdle ==
    /\ httpTimeout = DefaultTimeout
    /\ call = NoRpc
    /\ streams = << >>
    /\ request = NoRequest

StreamIdle ==
    /\ wire = << >> /\ remoteEOF = FALSE /\ buffered = 0 /\ rdpos = 0
    /\ pc = "idle" /\ header = << >> /\ payload = << >> /\ need = 0
    /\ ch = << >> /\ chClosed = FALSE /\ doneClosed = FALSE /\ bodyClosed = FALSE
    /\ ctxExpired = FALSE /\ cancels = 0 /\ panicked = FALSE
    /\ consumer = "idle" /\ received = << >>

CodecInit ==
    /\ mode = "codec"
    /\ input \in Inputs
    /\ sent = NoMsg
    /\ output = NoCall
    /\ StreamIdle
    /\ RpcIdle

\* var out pb.X; parseData(data, &out)
ParseData ==
    /\ mode = "codec"
    /\ output = NoCall
    /\ \E spare \in Spares : output' = parseDataCap(input, spare, ZeroMsg)
    /\ UNCHANGED <<input, sent, mode, streamVars, rpcVars>>

\* body, err := encodeMessage(message): the frame becomes the next input
EncodeMessage ==
    /\ mode = "codec"
    /\ sent = NoMsg
    /\ output = NoCall
    /\ \E m \in Msgs :
          /\ sent' = m
          /\ input' = encodeMessage(m)
    /\ UNCHANGED <<output, mode, streamVars, rpcVars>>

CodecNext == ParseData \/ EncodeMessage

CodecSpec == CodecInit /\ [][CodecNext]_vars

-----------------------------------------------------------------------------
(* Streaming reader: GrpcFollowFlightStream (grpc.go:236-278) after hc.Do  *)
(* has returned a response.  The read-loop goroutine, the caller's receive *)
(* loop, the cancel function, the context deadline and the remote side run *)
(* interleaved.                                                            *)

\* frames the remote side may send: a decodable data frame, a data frame of
\* declared length 0, a frame with the compressed flag
FrameKinds == { << 0, 0, 0, 0, 2, 8, 1 >>, << 0, 0, 0, 0, 0 >>, << 1, 0, 0, 0, 1, 8 >> }

\* what may follow the last complete frame: nothing, part of a header, or
\* a header with part of its payload
Tails == { << >>, << 0, 0, 0 >>, << 0, 0, 0, 0, 2, 8 >> }

\* the byte streams of at most k frames
RECURSIVE Streams(_)
Streams(k) ==
    IF k = 0 THEN {<< >>}
    ELSE LET r == Streams(k - 1)
         IN  r \cup {f \o s : f \in FrameKinds, s \in r}

\* k one-byte data frames with payloads 1..k: more than the channel holds
RECURSIVE LongStream(_)
LongStream(k) ==
    IF k = 0 THEN << >> ELSE LongStream(k - 1) \o << 0, 0, 0, 0, 1, k >>

Wires == {s \o t : s \in Streams(MaxFrames), t \in Tails} \cup {LongStream(ChanCap + 2)}

Init ==
    /\ mode = "stream"
    /\ wire \in Wires
    /\ remoteEOF = FALSE
    /\ buffered = 0 /\ rdpos = 0
    /\ pc = "header" /\ header = << >> /\ payload = << >> /\ need = 0
    /\ ch = << >> /\ chClosed = FALSE /\ doneClosed = FALSE /\ bodyClosed = FALSE
    /\ ctxExpired = FALSE /\ cancels = 0 /\ panicked = FALSE
    /\ consumer = "receiving" /\ received = << >>
    /\ input = << >> /\ sent = NoMsg /\ output = NoCall
    /\ RpcIdle

Running == mode = "stream" /\ ~panicked

\* the deferred calls of the goroutine, run on every return:
\* resp.Body.Close() and then close(ch)
ReaderReturn_NoBodyClose ==
    /\ pc' = "done"
    /\ chClosed' = TRUE
    /\ UNCHANGED bodyClosed

ReaderReturn ==
    /\ pc' = "done"
    /\ bodyClosed' = TRUE
    /\ chClosed' = TRUE

\* One br.Read(p) with len(p) = want > 0, as io.ReadFull issues it.  Bytes
\* left in br are copied out first; an empty br is refilled by one read of
\* resp.Body, which fails once the body is closed or the context has
\* expired, returns the next 1..MaxChunk bytes of the wire, blocks while
\* the remote side is silent, and returns io.EOF after the remote close.
\* ReadBytes(want, k): the read copies k bytes.  ReadFails: it errs.
ReadBytes(want, k) ==
    IF buffered > rdpos
    THEN /\ k = Min(want, buffered - rdpos)
         /\ UNCHANGED buffered
    ELSE /\ ~bodyClosed /\ ~ctxExpired
         /\ \E c \in 1..Min(MaxChunk, Len(wire) - buffered) :
               /\ buffered' = buffered + c
               /\ k = Min(want, c)

ReadFails ==
    /\ buffered = rdpos
    /\ \/ bodyClosed
       \/ ctxExpired
       \/ buffered = Len(wire) /\ remoteEOF

\* append(header[:5:5], payload...)
Reassemble_HeaderOnly(h, p) == h

\* a frame rebuilt without its header
Reassemble_PayloadOnly(h, p) == p

Reassemble(h, p) == h \o p

\* io.ReadFull(br, header), one read at a time; then n and make(payload);
\* io.ReadFull on a payload of length 0 returns at once
ReadHeader ==
    /\ Running /\ pc = "header"
    /\ \/ /\ \E k \in 1..5 :
               /\ ReadBytes(5 - Len(header), k)
               /\ rdpos' = rdpos + k
               /\ LET h == header \o SubSeq(wire, rdpos + 1, rdpos + k)
                  IN  /\ header' = h
                      /\ IF Len(h) < 5
                            THEN UNCHANGED <<pc, need>>
                         ELSE /\ need' = BigEndianUint32(Slice(h, 1, 5))
                              /\ pc' = IF need' = 0 THEN "select" ELSE "payload"
          /\ UNCHANGED <<bodyClosed, chClosed>>
       \/ /\ ReadFails
          /\ ReaderReturn
          /\ UNCHANGED <<buffered, rdpos, header, need>>
    /\ UNCHANGED <<wire, remoteEOF, payload, ch, doneClosed, ctxExpired, cancels,
                   panicked, consumer, received, mode, codecVars>>

\* a loop that publishes what it has of the frame when the payload read
\* fails
ReadPayload_PublishPartial ==
    /\ Running /\ pc = "payload"
    /\ \/ /\ \E k \in 1..need :
               /\ ReadBytes(need - Len(payload), k)
               /\ rdpos' = rdpos + k
               /\ payload' = payload \o SubSeq(wire, rdpos + 1, rdpos + k)
               /\ pc' = IF Len(payload') = need THEN "select" ELSE "payload"
          /\ UNCHANGED <<bodyClosed, chClosed, ch>>
       \/ /\ ReadFails
          /\ ReaderReturn
          /\ ch' = IF Len(ch) < ChanCap THEN Append(ch, Reassemble(header, payload)) ELSE ch
          /\ UNCHANGED <<buffered, rdpos, payload>>
    /\ UNCHANGED <<wire, remoteEOF, header, need, doneClosed, ctxExpired, cancels,
                   panicked, consumer, received, mode, codecVars>>

\* io.ReadFull(br, payload), one read at a time
ReadPayload ==
    /\ Running /\ pc = "payload"
    /\ \/ /\ \E k \in 1..need :
               /\ ReadBytes(need - Len(payload), k)
               /\ rdpos' = rdpos + k
               /\ payload' = payload \o SubSeq(wire, rdpos + 1, rdpos + k)
               /\ pc' = IF Len(payload') = need THEN "select" ELSE "payload"
          /\ UNCHANGED <<bodyClosed, chClosed>>
       \/ /\ ReadFails
          /\ ReaderReturn
          /\ UNCHANGED <<buffered, rdpos, payload>>
    /\ UNCHANGED <<wire, remoteEOF, header, need, ch, doneClosed, ctxExpired, cancels,
                   panicked, consumer, received, mode, codecVars>>

\* a read loop that inspects the frame and returns on a frame error
Publish_StopOnFrameError ==
    /\ Running /\ pc = "select"
    /\ Len(ch) < ChanCap
    /\ IF parseData(Reassemble(header, payload), ZeroMsg).kind = "GrpcError"
          THEN /\ ReaderReturn
               /\ UNCHANGED <<ch, header, payload, need>>
       ELSE /\ ch' = Append(ch, Reassemble(header, payload))
            /\ pc' = "header"
            /\ header' = << >> /\ payload' = << >> /\ need' = 0
            /\ UNCHANGED <<bodyClosed, chClosed>>
    /\ UNCHANGED <<wire, remoteEOF, buffered, rdpos, doneClosed,
                   ctxExpired, cancels, panicked, consumer, received, mode, codecVars>>

\* a send that never waits for room in the channel
Publish_Unbounded ==
    /\ Running /\ pc = "select"
    /\ ch' = Append(ch, Reassemble(header, payload))
    /\ pc' = "header"
    /\ header' = << >> /\ payload' = << >> /\ need' = 0
    /\ UNCHANGED <<wire, remoteEOF, buffered, rdpos, chClosed, doneClosed, bodyClosed,
                   ctxExpired, cancels, panicked, consumer, received, mode, codecVars>>

\* a send that puts the frame ahead of those waiting in the channel
Publish_Prepend ==
    /\ Running /\ pc = "select"
    /\ Len(ch) < ChanCap
    /\ ch' = << Reassemble(header, payload) >> \o ch
    /\ pc' = "header"
    /\ header' = << >> /\ payload' = << >> /\ need' = 0
    /\ UNCHANGED <<wire, remoteEOF, buffered, rdpos, chClosed, doneClosed, bodyClosed,
                   ctxExpired, cancels, panicked, consumer, received, mode, codecVars>>

\* select { case ch <- frame: }: taken when the channel has room
Publish ==
    /\ Running /\ pc = "select"
    /\ Len(ch) < ChanCap
    /\ ch' = Append(ch, Reassemble(header, payload))
    /\ pc' = "header"
    /\ header' = << >> /\ payload' = << >> /\ need' = 0
    /\ UNCHANGED <<wire, remoteEOF, buffered, rdpos, chClosed, doneClosed, bodyClosed,
                   ctxExpired, cancels, panicked, consumer, received, mode, codecVars>>

\* select with no case ready: the goroutine parks on both channels until
\* a receive on ch or close(done) picks its case and wakes it
Park ==
    /\ Running /\ pc = "select"
    /\ Len(ch) = ChanCap /\ ~doneClosed
    /\ pc' = "parked"
    /\ UNCHANGED <<wire, remoteEOF, buffered, rdpos, header, payload, need, ch,
                   chClosed, doneClosed, bodyClosed, ctxExpired, cancels, panicked,
                   consumer, received, mode, codecVars>>

\* a select without the done case
StopOnDone_NoDoneCase == FALSE /\ UNCHANGED vars

\* select { case <-done: return }: taken when done is closed as the select
\* is entered, or when close(done) woke the parked goroutine; the frame in
\* hand is dropped
StopOnDone ==
    /\ Running
    /\ \/ pc = "select" /\ doneClosed
       \/ pc = "woken"
    /\ ReaderReturn
    /\ UNCHANGED <<wire, remoteEOF, buffered, rdpos, header, payload, need, ch,
                   doneClosed, ctxExpired, cancels, panicked, consumer, received,
                   mode, codecVars>>

\* for frame := range ch: one receive (a closed channel still yields what
\* it holds).  A receive that finds the sender parked takes the head and
\* moves the sender's frame into the buffer: the send case has been taken
\* and the loop goes on.
Recv ==
    /\ Running /\ consumer = "receiving"
    /\ ch # << >>
    /\ received' = Append(received, Head(ch))
    /\ IF pc = "parked"
          THEN /\ ch' = Append(Tail(ch), Reassemble(header, payload))
               /\ pc' = "header"
               /\ header' = << >> /\ payload' = << >> /\ need' = 0
       ELSE /\ ch' = Tail(ch)
            /\ UNCHANGED <<pc, header, payload, need>>
    /\ UNCHANGED <<wire, remoteEOF, buffered, rdpos,
                   chClosed, doneClosed, bodyClosed, ctxExpired, cancels, panicked,
                   consumer, mode, codecVars>>

\* for frame := range ch ends: the channel is closed and empty
RangeEnd ==
    /\ Running /\ consumer = "receiving"
    /\ ch = << >> /\ chClosed
    /\ consumer' = "ended"
    /\ UNCHANGED <<wire, remoteEOF, buffered, rdpos, pc, header, payload, need, ch,
                   chClosed, doneClosed, bodyClosed, ctxExpired, cancels, panicked,
                   received, mode, codecVars>>

\* the caller leaves its receive loop early (break, return) or stalls
ConsumerStop ==
    /\ Running /\ consumer = "receiving"
    /\ consumer' = "stopped"
    /\ UNCHANGED <<wire, remoteEOF, buffered, rdpos, pc, header, payload, need, ch,
                   chClosed, doneClosed, bodyClosed, ctxExpired, cancels, panicked,
                   received, mode, codecVars>>

\* a cancel function that closes the delivery channel as well
Cancel_ClosesChannel ==
    /\ Running
    /\ cancels < MaxCancels
    /\ cancels' = cancels + 1
    /\ chClosed' = TRUE
    /\ IF doneClosed
          THEN /\ panicked' = TRUE
               /\ UNCHANGED <<doneClosed, bodyClosed>>
       ELSE /\ doneClosed' = TRUE
            /\ bodyClosed' = TRUE
            /\ UNCHANGED panicked
    /\ UNCHANGED <<wire, remoteEOF, buffered, rdpos, pc, header, payload, need, ch,
                   ctxExpired, consumer, received, mode, codecVars>>

\* a cancel function that closes the body and leaves done open
Cancel_BodyOnly ==
    /\ Running
    /\ cancels < MaxCancels
    /\ cancels' = cancels + 1
    /\ bodyClosed' = TRUE
    /\ UNCHANGED <<wire, remoteEOF, buffered, rdpos, pc, header, payload, need, ch,
                   chClosed, doneClosed, panicked, ctxExpired, consumer, received,
                   mode, codecVars>>

\* cancel := func() { close(done); _ = resp.Body.Close() }: closing the
\* closed channel done panics
Cancel ==
    /\ Running
    /\ cancels < MaxCancels
    /\ cancels' = cancels + 1
    /\ IF doneClosed
          THEN /\ panicked' = TRUE
               /\ UNCHANGED <<doneClosed, bodyClosed>>
       ELSE /\ doneClosed' = TRUE
            /\ bodyClosed' = TRUE
            /\ UNCHANGED panicked
    /\ pc' = IF pc = "parked" /\ ~doneClosed THEN "woken" ELSE pc
    /\ UNCHANGED <<wire, remoteEOF, buffered, rdpos, header, payload, need, ch,
                   chClosed, ctxExpired, consumer, received, mode, codecVars>>

\* the deadline of the context given to hc.Do(req.WithContext(ctx)) passes
CtxExpire ==
    /\ Running
    /\ ~ctxExpired
    /\ ctxExpired' = TRUE
    /\ UNCHANGED <<wire, remoteEOF, buffered, rdpos, pc, header, payload, need, ch,
                   chClosed, doneClosed, bodyClosed, cancels, panicked, consumer,
                   received, mode, codecVars>>

\* the remote side has sent the whole wire and closes the response body
RemoteClose ==
    /\ Running
    /\ ~remoteEOF
    /\ remoteEOF' = TRUE
    /\ UNCHANGED <<wire, buffered, rdpos, pc, header, payload, need, ch,
                   chClosed, doneClosed, bodyClosed, ctxExpired, cancels, panicked,
                   consumer, received, mode, codecVars>>

Next ==
    \/ ReadHeader
    \/ ReadPayload
    \/ Publish
    \/ Park
    \/ StopOnDone
    \/ Recv
    \/ RangeEnd
    \/ ConsumerStop
    \/ Cancel
    \/ CtxExpire
    \/ RemoteClose

Spec == Init /\ [][Next]_vars

\* Scheduling: a goroutine that can take a step eventually takes it (the
\* read loop, and the receive loop while the caller stays in it); the
\* transport keeps handing over the bytes of the wire and the remote side
\* closes the stream after its last byte.
FairSpec ==
    /\ Spec
    /\ WF_vars(ReadHeader)
    /\ WF_vars(ReadPayload)
    /\ WF_vars(Publish)
    /\ WF_vars(Park)
    /\ WF_vars(StopOnDone)
    /\ WF_vars(Recv)
    /\ WF_vars(RangeEnd)
    /\ WF_vars(RemoteClose)

-----------------------------------------------------------------------------
(* Response projection: the parseXxxResponse functions (grpcweb.go:136-181) *)

\* what a parseXxxResponse function returns: the error (its kind, "nil" for
\* none) and the message pointer (NoMsg for a nil pointer)
Parse(err, message, out) == [err |-> err, Message |-> message, out |-> out]

\* var out pb.X; return &out, parseData(data, &out); data is the slice
\* io.ReadAll returned
ParseOut(data) ==
    LET r == parseDataCap(data, ReadAllSpare, ZeroMsg)
    IN  Parse(IF r.kind = "ok" THEN "nil" ELSE r.kind, r.Message, r.into)

parseLiveFeedResponse_EmptyIsOk(data) ==
    LET r == ParseOut(data)
    IN  IF r.err = "GrpcError" /\ r.Message \in {"empty message payload", "empty DATA frame"}
           THEN Parse("nil", "", r.out)
        ELSE r

parseLiveFeedResponse(data) == ParseOut(data)

parsePlaybackResponse(data) == ParseOut(data)

\* a nearest-flights parser without the empty-result test
parseNearestFlightsResponse_NoExemption(data) ==
    LET r == ParseOut(data)
    IN  IF r.err # "nil" THEN Parse(r.err, r.Message, NoMsg) ELSE r

\* a nearest-flights parser that takes every GrpcError for "no results"
parseNearestFlightsResponse_AnyGrpcError(data) ==
    LET r == ParseOut(data)
    IN  IF r.err = "GrpcError" THEN Parse("nil", "", r.out)
        ELSE IF r.err # "nil" THEN Parse(r.err, r.Message, NoMsg)
        ELSE r

\* an empty payload or an empty body means "no results": &out, nil; any
\* other error returns a nil message
parseNearestFlightsResponse(data) ==
    LET r == ParseOut(data)
    IN  IF r.err = "GrpcError" /\ r.Message \in {"empty message payload", "empty DATA frame"}
           THEN Parse("nil", "", r.out)
        ELSE IF r.err # "nil" THEN Parse(r.err, r.Message, NoMsg)
        ELSE r

parseLiveFlightsStatusResponse(data) == ParseOut(data)

parseTopFlightsResponse(data) == ParseOut(data)

parseFlightDetailsResponse(data) == ParseOut(data)

parsePlaybackFlightResponse(data) == ParseOut(data)

CallKinds ==
    {"LiveFeed", "Playback", "NearestFlights", "LiveFlightsStatus", "TopFlights",
     "FlightDetails", "PlaybackFlight"}

\* ParseLiveFeedGRPC ... ParsePlaybackFlightGRPC, by call kind
ParseGRPC(kind, data) ==
    CASE kind = "LiveFeed" -> parseLiveFeedResponse(data)
      [] kind = "Playback" -> parsePlaybackResponse(data)
      [] kind = "NearestFlights" -> parseNearestFlightsResponse(data)
      [] kind = "LiveFlightsStatus" -> parseLiveFlightsStatusResponse(data)
      [] kind = "TopFlights" -> parseTopFlightsResponse(data)
      [] kind = "FlightDetails" -> parseFlightDetailsResponse(data)
      [] kind = "PlaybackFlight" -> parsePlaybackFlightResponse(data)

-----------------------------------------------------------------------------
(* Request/response calls: Fetch and Records (service.go), Client.do
   (client.go:57-76), and the opening of a stream (grpc.go:236-248) *)

\* most streams opened on one client
MaxStreams == 2

\* response bodies: empty, a data frame of length 0, a message, a message
\* and an empty trailers frame, a compressed frame, a cut header, a payload
\* that does not deserialize, a trailers frame
RpcBodies ==
    { << >>,
      << 0, 0, 0, 0, 0 >>,
      << 0, 0, 0, 0, 2, 8, 1 >>,
      << 0, 0, 0, 0, 2, 8, 1, 128, 0, 0, 0, 0 >>,
      << 1, 0, 0, 0, 1, 8 >>,
      << 0, 0, 0 >>,
      << 0, 0, 0, 0, 1, 8 >>,
      << 128, 0, 0, 0, 39 >> \o NotFoundTrailer }

RpcInit ==
    /\ mode = "rpc"
    /\ input = << >> /\ sent = NoMsg /\ output = NoCall
    /\ StreamIdle
    /\ RpcIdle

\* svc.Fetch: GrpcXxx builds the request and hands it to c.do, which runs
\* c.http.Do(req) on the shared client.  Either the transport fails and
\* Fetch returns the error, or a response arrives whose body is still to
\* be read.
Fetch ==
    /\ mode = "rpc"
    /\ call.pc \in {"idle", "returned"}
    /\ \E kind \in CallKinds :
          \/ call' = [NoRpc EXCEPT !.kind = kind, !.pc = "returned", !.failed = "send",
                                   !.timeout = httpTimeout, !.during = Len(streams),
                                   !.err = "transport"]
          \/ \E body \in RpcBodies :
                call' = [NoRpc EXCEPT !.kind = kind, !.pc = "response", !.body = body,
                                      !.timeout = httpTimeout, !.during = Len(streams)]
    /\ UNCHANGED <<httpTimeout, streams, request, input, sent, output, mode, streamVars>>

\* r.Records() / r.Record(): b, _ := io.ReadAll(r.Response.Body) returns
\* the bytes read before the body ended or the transport failed, and its
\* error is dropped; then ParseXxxGRPC(b); an error returns nil records.
Records ==
    /\ mode = "rpc"
    /\ call.pc = "response"
    /\ \E cut \in 0..Len(call.body), fail \in BOOLEAN :
          /\ cut < Len(call.body) => fail
          /\ LET b == SubSeq(call.body, 1, cut)
                 r == ParseGRPC(call.kind, b)
             IN  call' = [call EXCEPT !.pc = "returned", !.read = b,
                                      !.failed = IF fail THEN "read" ELSE "none",
                                      !.err = r.err, !.Message = r.Message,
                                      !.records = IF r.err = "nil" THEN r.out ELSE NoMsg]
    /\ UNCHANGED <<httpTimeout, streams, request, input, sent, output, mode, streamVars>>

\* a stream opened by setting the shared client's Timeout to 0
OpenStream_SharedClient ==
    /\ mode = "rpc"
    /\ Len(streams) < MaxStreams
    /\ httpTimeout' = 0
    /\ \E ok \in BOOLEAN :
          streams' = Append(streams, [timeout |-> httpTimeout',
                                      state |-> IF ok THEN "open" ELSE "failed"])
    /\ UNCHANGED <<call, request, input, sent, output, mode, streamVars>>

\* GrpcFollowFlightStream up to its return: hc := *c.http; hc.Timeout = 0;
\* hc.Do(req.WithContext(ctx)), which fails or hands over the response
OpenStream ==
    /\ mode = "rpc"
    /\ Len(streams) < MaxStreams
    /\ LET hc == [Timeout |-> 0]
       IN  \E ok \in BOOLEAN :
              streams' = Append(streams, [timeout |-> hc.Timeout,
                                          state |-> IF ok THEN "open" ELSE "failed"])
    /\ UNCHANGED <<httpTimeout, call, request, input, sent, output, mode, streamVars>>

\* the cancel function of an open stream, or the return of its read loop
CloseStream ==
    /\ mode = "rpc"
    /\ \E i \in 1..Len(streams) :
          /\ streams[i].state = "open"
          /\ streams' = [streams EXCEPT ![i].state = "closed"]
    /\ UNCHANGED <<httpTimeout, call, request, input, sent, output, mode, streamVars>>

RpcNext == Fetch \/ Records \/ OpenStream \/ CloseStream

RpcSpec == RpcInit /\ [][RpcNext]_vars

-----------------------------------------------------------------------------
(* The request builder: constructGRPCRequest (grpcweb.go:59-84) *)

\* the three headers constructGRPCRequest tests, and one it does not
RequiredKeys == {"Content-Type", "X-User-Agent", "X-Grpc-Web"}
HeaderKeys == RequiredKeys \cup {"Authorization"}

\* the value constructGRPCRequest sets for a required header
RequiredValue(k) ==
    CASE k = "Content-Type" -> "application/grpc-web+proto"
      [] k = "X-User-Agent" -> "grpc-web-javascript/0.1"
      [] k = "X-Grpc-Web" -> "1"

\* the values a caller's http.Header may hold under one key: none, or one
\* or two strings, the empty string among them
ValueLists ==
    { << >>, << "" >>, << "v" >>, << "", "v" >>, << "v", "" >>, << "v", "w" >> }

HeaderSets == [HeaderKeys -> ValueLists]

\* http.Header.Get: the first value under the key, "" when there is none
Get(h, k) == IF h[k] = << >> THEN "" ELSE h[k][1]

\* http.Header.Set: the key holds the single value
Set(h, k, v) == [h EXCEPT ![k] = << v >>]

\* http.Header.Add for every value of every key, onto the empty header of
\* http.NewRequest
AddAll(headers) == [k \in HeaderKeys |-> headers[k]]

\* if req.Header.Get(k) == "" { req.Header.Set(k, v) }
SetIfUnset(h, k) == IF Get(h, k) = "" THEN Set(h, k, RequiredValue(k)) ELSE h

\* a builder that sets the three required headers whatever the caller gave
constructGRPCRequest_AlwaysSet(method, message, headers) ==
    [built |-> TRUE, method |-> method, body |-> encodeMessage(message),
     base |-> headers,
     Header |-> Set(Set(Set(AddAll(headers), "Content-Type", RequiredValue("Content-Type")),
                        "X-User-Agent", RequiredValue("X-User-Agent")),
                    "X-Grpc-Web", RequiredValue("X-Grpc-Web"))]

constructGRPCRequest(method, message, headers) ==
    [built |-> TRUE, method |-> method, body |-> encodeMessage(message),
     base |-> headers,
     Header |-> SetIfUnset(SetIfUnset(SetIfUnset(AddAll(headers), "Content-Type"),
                                      "X-User-Agent"),
                           "X-Grpc-Web")]

BuildInit ==
    /\ mode = "build"
    /\ input = << >> /\ sent = NoMsg /\ output = NoCall
    /\ StreamIdle
    /\ RpcIdle

\* one call of constructGRPCRequest
ConstructGRPCRequest ==
    /\ mode = "build"
    /\ ~request.built
    /\ \E headers \in HeaderSets, m \in {ZeroMsg, [f1 |-> 1, f2 |-> 0]} :
          request' = constructGRPCRequest("LiveFeed", m, headers)
    /\ UNCHANGED <<httpTimeout, call, streams, input, sent, output, mode, streamVars>>

BuildNext == ConstructGRPCRequest

BuildSpec == BuildInit /\ [][BuildNext]_vars

-----------------------------------------------------------------------------
(* Properties of the codec, checked under CodecSpec *)

Parsed == mode = "codec" /\ output # NoCall

\* C7 as stated: decoding the frame encodeMessage produced for a payload
\* succeeds and yields exactly that payload, for every payload including
\* the empty one.
RoundTrip ==
    (Parsed /\ sent # NoMsg) =>
        /\ output.kind = "ok"
        /\ output.msg = Marshal(sent)
        /\ output.into = sent

\* C7 amended: the round trip holds for every message whose payload is not
\* empty; the frame of the empty payload (0x00 00 00 00 00) decodes to the
\* "empty message payload" error and leaves the target untouched.
RoundTripNonEmpty ==
    (Parsed /\ sent # NoMsg) =>
        IF Marshal(sent) # << >>
        THEN /\ output.kind = "ok"
             /\ output.msg = Marshal(sent)
             /\ output.into = sent
        ELSE output = GrpcErr("empty message payload", << 0, 0, 0, 0, 0 >>, ZeroMsg)

RoundTripWitness ==
    /\ Parsed
    /\ sent = [f1 |-> 1, f2 |-> 2]
    /\ input = << 0, 0, 0, 0, 4, 8, 1, 16, 2 >>
    /\ output.kind = "ok"

\* C8 as stated: every byte string of length 1 to 4 yields "short frame",
\* whatever its bytes.
ShortFrameAnyBytes ==
    (Parsed /\ Len(input) \in 1..4) =>
        (output.kind = "GrpcError" /\ output.Message = "short frame")

\* C8 amended: a byte string of length 1 to 4 yields "short frame" when its
\* first byte is 0; when its first byte is 1 it yields the compressed error.
ShortFrameDataFlag ==
    (Parsed /\ Len(input) \in 1..4) =>
        /\ input[1] = 0 => output = GrpcErr("short frame", input, ZeroMsg)
        /\ input[1] = 1 =>
              output = GrpcErr("message is compressed, not implemented", input, ZeroMsg)

ShortFrameWitness ==
    /\ Parsed
    /\ input = << 0, 8, 16, 2 >>
    /\ output.Message = "short frame"

\* C9: parseData on the empty byte string returns the "empty DATA frame"
\* error and decodes nothing into the target message.
EmptyFrameDetected ==
    (Parsed /\ input = << >>) =>
        /\ output.kind = "GrpcError"
        /\ output.Message = "empty DATA frame"
        /\ output.into = ZeroMsg

EmptyFrameWitness ==
    Parsed /\ input = << >> /\ output.Message = "empty DATA frame"

\* C10: every non-empty byte string whose first byte is 1 yields the
\* "message is compressed, not implemented" error, whatever its length and
\* remaining bytes.
CompressedRejected ==
    (Parsed /\ input # << >> /\ input[1] = 1) =>
        /\ output.kind = "GrpcError"
        /\ output.Message = "message is compressed, not implemented"
        /\ output.Raw = input
        /\ output.into = ZeroMsg

CompressedWitness ==
    /\ Parsed
    /\ Len(input) = MaxLen
    /\ input[1] = 1
    /\ input[MaxLen] = 16
    /\ output.Message = "message is compressed, not implemented"

\* C11: for every flag byte other than 0 and 1 and any four length bytes,
\* parseData on flag || length || "grpc-status: 5\ngrpc-message: not found\n"
\* returns a GrpcError with Status "5", StatusMessage "not found" and the
\* whole input as Raw.
TrailerParsed ==
    (/\ Parsed
     /\ Len(input) >= 5
     /\ input[1] \notin {0, 1}
     /\ SubSeq(input, 6, Len(input)) = NotFoundTrailer) =>
        /\ output.kind = "GrpcError"
        /\ output.Status = << 53 >>
        /\ output.StatusMessage = << 110, 111, 116, 32, 102, 111, 117, 110, 100 >>
        /\ output.Raw = input

TrailerParsedWitness ==
    /\ Parsed
    /\ Len(input) >= 5
    /\ SubSeq(input, 1, 5) = << 255, 255, 0, 39, 255 >>
    /\ SubSeq(input, 6, Len(input)) = NotFoundTrailer
    /\ output.Status = << 53 >>

\* C14: encodeMessage on a payload of n bytes returns 5+n bytes: 0x00, then
\* n as a 32-bit big-endian unsigned integer, then the payload unchanged.
EncodeShape ==
    (mode = "codec" /\ sent # NoMsg) =>
        LET body == Marshal(sent)
        IN  /\ Len(input) = 5 + Len(body)
            /\ input[1] = 0
            /\ BigEndianUint32(SubSeq(input, 2, 5)) = Len(body)
            /\ SubSeq(input, 6, Len(input)) = body

EncodeShapeWitness ==
    /\ mode = "codec"
    /\ sent = [f1 |-> 2, f2 |-> 1]
    /\ input = << 0, 0, 0, 0, 4, 8, 2, 16, 1 >>

\* a data frame whose header and declared payload are all present
WellFramed(d) ==
    /\ Len(d) >= 5
    /\ d[1] = 0
    /\ BigEndianUint32(SubSeq(d, 2, 5)) > 0
    /\ 5 + BigEndianUint32(SubSeq(d, 2, 5)) <= Len(d)

\* C18 as stated: parseData reports a ProtoParseError exactly for a
\* well-framed data frame whose payload does not deserialize; no framing
\* defect is reported as a ProtoParseError.
DecodeErrorDistinct ==
    Parsed =>
        (output.kind = "ProtoParseError" <=>
            (/\ WellFramed(input)
             /\ ~Unmarshal(SubSeq(input, 6, 5 + BigEndianUint32(SubSeq(input, 2, 5)))).ok))

-----------------------------------------------------------------------------
(* Properties of the streaming reader, checked under Spec and FairSpec *)

\* the complete frames of a byte stream, cut at the declared lengths
RECURSIVE FramesOf(_)
FramesOf(w) ==
    IF Len(w) < 5 THEN << >>
    ELSE LET n == BigEndianUint32(SubSeq(w, 2, 5))
         IN  IF Len(w) < 5 + n THEN << >>
             ELSE << SubSeq(w, 1, 5 + n) >> \o FramesOf(SubSeq(w, 6 + n, Len(w)))

RECURSIVE TotalLen(_)
TotalLen(fs) == IF fs = << >> THEN 0 ELSE Len(Head(fs)) + TotalLen(Tail(fs))

\* the wire is a sequence of whole frames, nothing left over
WellFormedWire == TotalLen(FramesOf(wire)) = Len(wire)

\* the caller cancelled, its deadline passed, or it left its receive loop
Interrupted == cancels > 0 \/ ctxExpired \/ consumer = "stopped"

DeliveredAll == chClosed /\ ch = << >> /\ received = FramesOf(wire)

\* the read loop has returned and its deferred calls have run
ReaderStopped == pc = "done" /\ bodyClosed /\ chClosed

\* the read loop holds a frame and the channel has no room for it
BlockedOnFull ==
    mode = "stream" /\ pc \in {"select", "parked", "woken"} /\ Len(ch) = ChanCap

\* the codec classifies the frame as a frame error: compressed flag, or a
\* data frame of declared length 0
IsFrameError(f) ==
    parseData(f, ZeroMsg).Message \in
        {"message is compressed, not implemented", "empty message payload"}

\* C1: when the wire is N well-formed frames and then ends, and the consumer
\* keeps receiving and nobody cancels, the channel eventually is closed and
\* drained and the consumer holds exactly the N frames in wire order, for
\* every chunking of the bytes.
StreamDeliversInOrder ==
    WellFormedWire => <>(Interrupted \/ DeliveredAll)

StreamDeliversWitness ==
    /\ mode = "stream"
    /\ WellFormedWire /\ ~Interrupted /\ DeliveredAll
    /\ Len(received) = ChanCap + 2

\* C2: once cancel has been called while the read loop is blocked on the
\* full channel, the loop returns, the body is closed and the channel is
\* closed, even when the consumer never receives again (a further cancel
\* call, which crashes the process, aside).
CancelUnblocksReader ==
    (BlockedOnFull /\ doneClosed) ~> (ReaderStopped \/ panicked)

CancelUnblocksWitness ==
    /\ ReaderStopped
    /\ cancels = 1 /\ ~panicked
    /\ consumer = "stopped"
    /\ Len(ch) = ChanCap
    /\ Len(header) = 5 /\ Len(payload) = need

\* C3 as stated: a second or later call of cancel completes normally and
\* raises no fault.
CancelIdempotent == cancels >= 2 => ~panicked

\* C4 as stated: after the context deadline has passed or the remote side
\* has closed the stream, the read loop eventually returns, with body and
\* channel closed, whatever the consumer does and without a cancel call.
DestroyedOnDeadlineOrEOF ==
    (mode = "stream" /\ (ctxExpired \/ remoteEOF)) ~> (ReaderStopped \/ cancels > 0)

NoLeakOnExit == pc = "done" => bodyClosed

NoLeakWitness ==
    /\ pc = "done" /\ bodyClosed
    /\ cancels = 0 /\ ~ctxExpired
    /\ Len(header) \in 1..4

\* the frames the read loop has read out of br and the consumer has not
\* received: those in the channel, the one in hand, and any one dropped on
\* cancellation
Undelivered == Len(FramesOf(SubSeq(wire, 1, rdpos))) - Len(received)

\* C15 as stated: at most ChanCap + 1 frames are read and not received, and
\* while the channel is full the reader reads no further bytes from the
\* connection.
BackpressureWhileFull ==
    [][/\ Undelivered <= ChanCap + 1
       /\ (mode = "stream" /\ Len(ch) = ChanCap) =>
              (buffered' = buffered /\ rdpos' = rdpos)]_vars

\* C15 amended: at most ChanCap + 1 frames are read and not received, and
\* while the reader is blocked publishing (a frame in hand and the channel
\* full) it reads no further bytes; with the channel full and no frame in
\* hand it still reads the next frame.
BackpressureWhileBlocked ==
    /\ [](mode = "stream" => Undelivered <= ChanCap + 1)
    /\ [][BlockedOnFull => (buffered' = buffered /\ rdpos' = rdpos)]_vars

BackpressureWitness ==
    /\ BlockedOnFull
    /\ consumer = "stopped"
    /\ Undelivered = ChanCap + 1
    /\ rdpos < Len(wire)
\* C16: the delivery channel is closed only by the read loop as it returns,
\* hence once; after that the loop stays returned, nothing is sent on the
\* channel (it only drains), and a consumer whose range has ended receives
\* nothing more, whatever is called on the handle.
NonRestartable ==
    [][/\ (~chClosed /\ chClosed') => (pc # "done" /\ pc' = "done")
       /\ pc = "done" => pc' = "done"
       /\ chClosed =>
             /\ chClosed'
             /\ pc' = "done"
             /\ ch' = ch \/ (ch # << >> /\ ch' = Tail(ch))
             /\ received' \o ch' = received \o ch
       /\ consumer = "ended" => (consumer' = "ended" /\ received' = received)]_vars

NonRestartableWitness ==
    /\ chClosed /\ consumer = "ended"
    /\ cancels = 1 /\ ctxExpired /\ remoteEOF
    /\ Len(received) = 1
    /\ Len(FramesOf(wire)) = 2
-----------------------------------------------------------------------------
(* Properties of the request/response calls, checked under RpcSpec *)

\* Records has returned after a response arrived
Returned == mode = "rpc" /\ call.pc = "returned" /\ call.failed # "send"

EmptyMessages == {"empty message payload", "empty DATA frame"}

\* the codec classifies the bytes as an empty body or a data frame of
\* declared length 0
ClassifiedEmpty(b) ==
    /\ parseData(b, ZeroMsg).kind = "GrpcError"
    /\ parseData(b, ZeroMsg).Message \in EmptyMessages

\* C12: on the nearest-flights path a body the codec classifies as an empty
\* frame or an empty message payload comes back as a valid response with
\* zero flights and a nil error.
NearestEmptyIsNoFlights ==
    (Returned /\ call.kind = "NearestFlights" /\ ClassifiedEmpty(call.read)) =>
        (call.err = "nil" /\ call.records = ZeroMsg)

NearestEmptyWitness ==
    /\ Returned /\ call.kind = "NearestFlights"
    /\ call.failed = "none"
    /\ call.read = << 0, 0, 0, 0, 0 >>
    /\ call.err = "nil" /\ call.records = ZeroMsg

\* C13: for every call kind other than nearest-flights an empty body or a
\* data frame of declared length 0 comes back as the codec's error, with
\* no records.
OtherKindsEmptyIsError ==
    (/\ Returned
     /\ call.kind # "NearestFlights"
     /\ \/ call.read = << >>
        \/ /\ Len(call.read) >= 5
           /\ call.read[1] = 0
           /\ BigEndianUint32(SubSeq(call.read, 2, 5)) = 0) =>
        /\ call.err = "GrpcError"
        /\ call.Message =
              IF call.read = << >> THEN "empty DATA frame" ELSE "empty message payload"
        /\ call.records = NoMsg

OtherKindsEmptyWitness ==
    /\ Returned /\ call.kind = "LiveFeed"
    /\ call.failed = "none"
    /\ call.read = << 0, 0, 0, 0, 0 >>
    /\ call.err = "GrpcError"

\* C17 as stated: a transport failure during a request/response call,
\* while sending the request or while reading the response body, comes
\* back as an error, never as a successful result.
TransportFailureIsError ==
    (mode = "rpc" /\ call.pc = "returned" /\ call.failed # "none") => call.err # "nil"

\* C20: a stream is issued with Timeout 0 on a copy of the client; the
\* shared client keeps its 20 s Timeout, and every request/response call,
\* whatever streams were opened before it, is issued with that Timeout.
StreamLeavesTimeout ==
    mode = "rpc" =>
        /\ httpTimeout = DefaultTimeout
        /\ \A i \in 1..Len(streams) : streams[i].timeout = 0
        /\ call.kind # "none" => call.timeout = DefaultTimeout

StreamLeavesTimeoutWitness ==
    /\ mode = "rpc"
    /\ Len(streams) = 2
    /\ streams[1].state = "closed" /\ streams[2].state = "open"
    /\ call.pc = "returned" /\ call.during = 2 /\ call.failed = "none"
    /\ call.timeout = DefaultTimeout
-----------------------------------------------------------------------------
(* Properties of the request builder, checked under BuildSpec *)

Built == mode = "build" /\ request.built

\* C19 as stated: a required header is set to its protocol value only when
\* the caller's header set has no value for it; a value the caller supplied
\* for it, and every other header of the caller, is sent unchanged.
CallerHeadersWin ==
    Built =>
        /\ \A k \in RequiredKeys :
              request.Header[k] =
                 IF request.base[k] = << >> THEN << RequiredValue(k) >> ELSE request.base[k]
        /\ \A k \in HeaderKeys \ RequiredKeys : request.Header[k] = request.base[k]

\* C19 amended: a required header is set to its protocol value when the
\* caller's header set has no value for it or its first value for it is the
\* empty string; otherwise the caller's values for it are sent unchanged,
\* as is every other header of the caller.
NonEmptyCallerHeadersWin ==
    Built =>
        /\ \A k \in RequiredKeys :
              request.Header[k] =
                 IF request.base[k] = << >> \/ request.base[k][1] = ""
                    THEN << RequiredValue(k) >>
                 ELSE request.base[k]
        /\ \A k \in HeaderKeys \ RequiredKeys : request.Header[k] = request.base[k]

CallerHeadersWitness ==
    /\ Built
    /\ request.base["Content-Type"] = << "v", "w" >>
    /\ request.base["X-User-Agent"] = << >>
    /\ request.base["X-Grpc-Web"] = << "", "v" >>
    /\ request.base["Authorization"] = << "" >>
    /\ request.Header["Content-Type"] = << "v", "w" >>
    /\ request.Header["X-User-Agent"] = << "grpc-web-javascript/0.1" >>
    /\ request.Header["X-Grpc-Web"] = << "1" >>
-----------------------------------------------------------------------------
(* Further properties of the streaming reader, checked under Spec and
   FairSpec *)

\* the frame the read loop holds in hand
Held == Reassemble(header, payload)

\* f is an item of the sequence fs
InSeq(f, fs) == \E i \in 1..Len(fs) : fs[i] = f

\* C21: when cancel is called while the read loop is parked on the full
\* channel, the loop takes the done case: from then on nothing is added to
\* the channel, so the frame it held is never delivered, whatever the
\* consumer receives afterwards.
CancelDropsHeldFrame ==
    [][/\ (pc = "parked" /\ cancels' = cancels + 1) => (pc' = "woken" /\ ch' = ch)
       /\ pc \in {"woken", "done"} =>
             /\ pc' \in {"woken", "done"}
             /\ received' \o ch' = received \o ch
             /\ pc = "woken" => ~InSeq(Held, received' \o ch')]_vars

\* cancelled while parked, and the consumer has received since
CancelDropsWitness ==
    /\ mode = "stream" /\ pc = "woken"
    /\ cancels = 1 /\ consumer = "receiving"
    /\ Held = << 0, 0, 0, 0, 1, ChanCap + 1 >>
    /\ Len(ch) = ChanCap - 1 /\ Len(received) = 1
    /\ ~InSeq(Held, received \o ch)
\* C22: when the wire ends inside a frame (in its header or in its
\* payload) and nobody interrupts, the loop returns without publishing the
\* partial frame: the channel is closed and drained and the consumer holds
\* exactly the complete frames that came before, nothing else.
TruncatedStreamEndsSilently ==
    (mode = "stream" /\ ~WellFormedWire) => <>(Interrupted \/ DeliveredAll)

TruncatedStreamWitness ==
    /\ mode = "stream" /\ ~WellFormedWire
    /\ ~Interrupted /\ DeliveredAll /\ consumer = "ended"
    /\ pc = "done" /\ Len(header) = 5 /\ Len(payload) = 1 /\ need = 2
    /\ Len(received) = 2
\* the bytes of a sequence of frames, end to end
RECURSIVE Flatten(_)
Flatten(fs) == IF fs = << >> THEN << >> ELSE Head(fs) \o Flatten(Tail(fs))

\* C23: every item on the delivery channel is one whole frame, its 5-byte
\* header and exactly the payload the header declares, and the frames
\* published, followed by the bytes of the frame being read, are exactly
\* the bytes read so far: each header starts at the byte after the frame
\* before it, for every chunking.
FramesAligned ==
    mode = "stream" =>
        /\ \A i \in 1..Len(received \o ch) :
              LET f == (received \o ch)[i]
              IN  /\ Len(f) >= 5
                  /\ Len(f) = 5 + BigEndianUint32(SubSeq(f, 2, 5))
        /\ Flatten(received \o ch) \o header \o payload = SubSeq(wire, 1, rdpos)

FramesAlignedWitness ==
    /\ mode = "stream"
    /\ Len(received) = 1 /\ Len(ch) = 1
    /\ received[1] = << 0, 0, 0, 0, 0 >>
    /\ ch[1] = << 0, 0, 0, 0, 2, 8, 1 >>
    /\ pc = "payload" /\ payload = << >>
    /\ buffered > rdpos

\* s is an initial part of t
IsPrefix(s, t) == Len(s) <= Len(t) /\ SubSeq(t, 1, Len(s)) = s

\* C28: in every state of an open stream the items the consumer has
\* received are an initial part of the complete frames of the wire, in
\* wire order, also when the stream is cut short by cancellation, by the
\* deadline or by the end of the connection.
ReceivedIsPrefix ==
    mode = "stream" => IsPrefix(received, FramesOf(wire))

ReceivedIsPrefixWitness ==
    /\ mode = "stream"
    /\ ctxExpired /\ cancels = 0 /\ ~remoteEOF
    /\ pc = "done" /\ consumer = "ended"
    /\ Len(received) = 1 /\ Len(FramesOf(wire)) = 2
-----------------------------------------------------------------------------
(* Further properties of the codec, checked under CodecSpec *)

\* C27 as stated: parseData returns success or an error value for every
\* byte string and never faults, a trailer-flagged input of fewer than 5
\* bytes and a data frame declaring more bytes than are present included.
ParseDataTotal == Parsed => output.kind # "panic"
\* C24: for a data frame with declared length L > 0 and at least 5+L bytes
\* of input, parseData deserializes bytes 5 .. 5+L-1 only: its outcome is
\* that of the frame alone, whatever bytes follow offset 5+L, a trailers
\* frame with a failure status included.
TrailingBytesIgnored ==
    (Parsed /\ WellFramed(input)) =>
        LET L == BigEndianUint32(SubSeq(input, 2, 5))
            alone == parseData(SubSeq(input, 1, 5 + L), ZeroMsg)
        IN  /\ output.msg = SubSeq(input, 6, 5 + L)
            /\ output.kind = alone.kind
            /\ output.Message = alone.Message
            /\ output.into = alone.into
            /\ output.kind = "ok" <=> Unmarshal(SubSeq(input, 6, 5 + L)).ok

TrailingBytesWitness ==
    /\ Parsed
    /\ input = << 0, 0, 0, 0, 2, 8, 1, 128, 0, 0, 0, 39 >> \o NotFoundTrailer
    /\ output.kind = "ok"
    /\ output.into = [f1 |-> 1, f2 |-> 0]
\* the input is a trailers frame: header present, flag neither 0 nor 1
IsTrailerFrame(d) == Len(d) >= 5 /\ d[1] \notin {0, 1}

\* the trailer fields of a parseData outcome
TrailerFields(r) == << r.kind, r.Status, r.StatusMessage, r.StatusDetails >>

\* the pieces joined again, a newline between two of them
RECURSIVE Join(_)
Join(lines) ==
    IF lines = << >> THEN << >>
    ELSE IF Len(lines) = 1 THEN Head(lines)
    ELSE Head(lines) \o << 10 >> \o Join(Tail(lines))

RECURSIVE TrimEach(_)
TrimEach(lines) ==
    IF lines = << >> THEN << >>
    ELSE << TrimSpace(Head(lines)) >> \o TrimEach(Tail(lines))

\* the trailers frame with the white space around each of its lines removed
WithoutLineSpace(d) == SubSeq(d, 1, 5) \o Join(TrimEach(Split(SubSeq(d, 6, Len(d)))))

\* C25 as stated: each line of the trailer payload is trimmed before it is
\* matched, so a trailers frame yields the status, message and details of
\* the same frame with the white space around its lines removed.
TrailerLinesTrimmed ==
    (Parsed /\ IsTrailerFrame(input)) =>
        TrailerFields(output) = TrailerFields(parseData(WithoutLineSpace(input), ZeroMsg))

\* the line, white space around it removed, begins with a recognized key
Recognized(ln) ==
    \/ HasPrefix(TrimSpace(ln), GrpcStatusKey)
    \/ HasPrefix(TrimSpace(ln), GrpcMessageKey)
    \/ HasPrefix(TrimSpace(ln), GrpcDetailsKey)

RECURSIVE RecognizedOnly(_)
RecognizedOnly(lines) ==
    IF lines = << >> THEN << >>
    ELSE (IF Recognized(Head(lines)) THEN << Head(lines) >> ELSE << >>)
             \o RecognizedOnly(Tail(lines))

\* the trailers frame with the lines that match no recognized key removed
WithoutUnrecognized(d) ==
    SubSeq(d, 1, 5) \o Join(RecognizedOnly(Split(SubSeq(d, 6, Len(d)))))

\* C26 as stated: lines that begin with none of the recognized keys are
\* skipped: a trailers frame yields the status, message and details of the
\* same frame without those lines, and a GrpcError with empty status and
\* message when no line is recognized.
UnrecognizedLinesSkipped ==
    (Parsed /\ IsTrailerFrame(input)) =>
        /\ output.kind = "GrpcError"
        /\ TrailerFields(output) =
              TrailerFields(parseData(WithoutUnrecognized(input), ZeroMsg))
        /\ RecognizedOnly(Split(SubSeq(input, 6, Len(input)))) = << >> =>
              (output.Status = << >> /\ output.StatusMessage = << >>)
\* C30 as stated: parseData returns success only for input whose first
\* byte is 0 and whose declared length is not 0; every input with another
\* first byte yields an error, and a trailers frame with grpc-status 0 is a
\* GrpcError carrying Status "0".
SuccessOnlyForData ==
    Parsed =>
        /\ output.kind = "ok" =>
              /\ Len(input) >= 5
              /\ input[1] = 0
              /\ BigEndianUint32(SubSeq(input, 2, 5)) # 0
        /\ (input # << >> /\ input[1] # 0) => output.kind = "GrpcError"
        /\ (IsTrailerFrame(input) /\ SubSeq(input, 6, Len(input)) = OkTrailer) =>
              (output.kind = "GrpcError" /\ output.Status = << 48 >>)

-----------------------------------------------------------------------------
(* Further properties of the request/response calls, checked under RpcSpec *)

\* C29: on the nearest-flights path a trailers frame, a compressed frame, a
\* short frame and a payload that does not deserialize each come back as
\* the codec's error with no result; only the two empty cases are exempt.
NearestOtherErrorsReturned ==
    (Returned /\ call.kind = "NearestFlights") =>
        LET b == call.read
        IN  /\ IsTrailerFrame(b) =>
                  (call.err = "GrpcError" /\ call.Message = "gRPC errored"
                      /\ call.records = NoMsg)
            /\ (b # << >> /\ b[1] = 1) =>
                  (call.err = "GrpcError" /\ call.records = NoMsg
                      /\ call.Message = "message is compressed, not implemented")
            /\ (b # << >> /\ b[1] = 0 /\ Len(b) < 5) =>
                  (call.err = "GrpcError" /\ call.Message = "short frame"
                      /\ call.records = NoMsg)
            /\ (WellFramed(b)
                  /\ ~Unmarshal(SubSeq(b, 6, 5 + BigEndianUint32(SubSeq(b, 2, 5)))).ok) =>
                  (call.err = "ProtoParseError" /\ call.records = NoMsg)

NearestOtherErrorsWitness ==
    /\ Returned /\ call.kind = "NearestFlights" /\ call.failed = "none"
    /\ call.read = << 128, 0, 0, 0, 39 >> \o NotFoundTrailer
    /\ call.err = "GrpcError" /\ call.records = NoMsg
====
